---- MODULE Spec2Model ----
(***************************************************************************)
(* A model of the Outscraper review pipeline (src/scraper.py) and of the   *)
(* command line entry points that drive it: the asynchronous job poller    *)
(* (get_all_reviews, get_all_reviews_last_24), the batch orchestrator      *)
(* (save_data) and the upsert writers (save_business, save_review) over a  *)
(* transactional store with the two tables businesses and reviews.         *)
(*                                                                         *)
(* The provider and the database are the environment: a provider call      *)
(* returns or raises, a status check reports Success or not, a statement   *)
(* succeeds or raises; each is a nondeterministic choice.  A payload is    *)
(* known by the job it came from and by its shape (the number of reviews   *)
(* of each of its business entries); the fields of an entry are read when  *)
(* the loop of save_data reaches the entry, which is when the code reads   *)
(* them.                                                                   *)
(***************************************************************************)
EXTENDS Integers, Sequences, FiniteSets, TLC

\* ------------------------------------------------------------------ bounds
MaxRecords == 3     \* business entries and reviews written in one run
MaxBatches == 2     \* payloads handed to save_data in one run
MaxTargets == 2     \* place ids handed to one get_all_reviews call
MaxCalls == 2       \* direct calls of the writers in one run

\* ------------------------------------------------------- program constants
SubmitAttempts == 3     \* for attempt in range(3)
LastAttemptEarly == 2 - 1    \* the re-raise one attempt early
LastAttemptNever == 2 + 1    \* no attempt re-raises
LastAttempt == 2        \* if attempt == 2: raise
PollRoundsAll == 10     \* attempts = 10 in get_all_reviews
PollRoundsLast24 == 20  \* attempts = 20 in get_all_reviews_last_24

\* ------------------------------------------------------- values and inputs
None == "None"

\* Python truthiness of the values used here: None, the empty string and the
\* empty list are false.
Falsy == {None, "", "[]"}
Truthy(v) == v \notin Falsy

PlaceIds == {"p1", "p2"}
ReviewIds == {"r1", "r2"}

\* review_datetime_utc as the provider sends it: in the format
\* %m/%d/%Y %H:%M:%S, or in another one.
DtGood == "01/02/2024 03:04:05"
DtBad == "2024-01-02T03:04:05"

\* The raw business entries of a payload: place_id may be missing or empty,
\* name may be missing, popular_times stands for the structured fields,
\* address for the fields that are not on the allow-list.
RawBusiness ==
    [place_id : {None, ""} \cup PlaceIds,
     name : {None, "a"},
     popular_times : {None, "[]", "[1]"},
     address : {"x"}]

\* The raw reviews of a business entry.
RawReview ==
    [review_id : {None} \cup ReviewIds,
     review_datetime_utc : {None, "", DtGood, DtBad},
     text : {"x"}]

\* The shape of a payload: the length of reviews_data of each entry.
RECURSIVE SumSeq(_)
SumSeq(s) == IF s = <<>> THEN 0 ELSE Head(s) + SumSeq(Tail(s))

RECURSIVE ShapesWithin(_)
ShapesWithin(b) ==
    {<<>>} \cup
    UNION {{<<n>> \o s : s \in ShapesWithin(b - 1 - n)} : n \in 0..(b - 1)}
Shapes == ShapesWithin(MaxRecords)

\* What an execute() of a writer call does: both statements succeed, the
\* lookup raises, or the write raises.
ExecOutcomes == {"ok", "lookup-raises", "write-raises"}

\* ------------------------------------------------------------------ mapper
json_dumps(v) == "json:" \o v

\* A conversion that falls back to the string it was given.
strptime_or_raw(v) == IF v = DtGood THEN "datetime(2024, 1, 2, 3, 4, 5)" ELSE v

\* datetime.strptime(v, '%m/%d/%Y %H:%M:%S'): the parsed value, or None for
\* the ValueError the code swallows.
strptime(v) == IF v = DtGood THEN "datetime(2024, 1, 2, 3, 4, 5)" ELSE None

BusinessColumns == {"place_id", "name", "popular_times"}
ReviewColumns == {"business_place_id", "review_id", "review_datetime_utc"}

\* business_fields that serializes popular_times whatever its value.
business_fields_dump_all(business_data) ==
    [place_id |-> business_data.place_id,
     name |-> business_data.name,
     popular_times |-> json_dumps(business_data.popular_times)]

\* The dict built at the top of save_business, before the None values are
\* removed.
business_fields(business_data) ==
    [place_id |-> business_data.place_id,
     name |-> business_data.name,
     popular_times |->
        IF Truthy(business_data.popular_times)
        THEN json_dumps(business_data.popular_times) ELSE None]

\* {k: v for k, v in record.items() if v is not None}
drop_none(record) ==
    [k \in {c \in DOMAIN record : record[c] # None} |-> record[k]]

business(business_data) == drop_none(business_fields(business_data))

review_datetime_utc(review) ==
    IF Truthy(review.review_datetime_utc)
    THEN strptime(review.review_datetime_utc) ELSE None

review_fields(review, business_place_id) ==
    [business_place_id |-> business_place_id,
     review_id |-> review.review_id,
     review_datetime_utc |-> review_datetime_utc(review)]

review_record(review, business_place_id) ==
    drop_none(review_fields(review, business_place_id))

\* ---------------------------------------------------------------- database
\* A table holds, for each value of its key column, the rows with that key
\* in the order they were inserted; a row gives every column NULL or a value.
NULL == "NULL"
NoRows == <<>>
EmptyStore ==
    [businesses |-> [k \in PlaceIds |-> NoRows],
     reviews |-> [k \in ReviewIds |-> NoRows]]

\* SELECT 1 FROM t WHERE key = k, then fetchone(): is there a row
fetchone(table, k) == Len(table[k]) > 0

\* INSERT INTO t (columns of record) VALUES (...): the other columns are NULL
insert_row(columns, record) ==
    [c \in columns |-> IF c \in DOMAIN record THEN record[c] ELSE NULL]

sql_insert(table, columns, k, record) ==
    [table EXCEPT ![k] = Append(@, insert_row(columns, record))]

\* An UPDATE that sets every column, the ones the record omits to NULL.
update_row_overwrite(row, record) ==
    [c \in DOMAIN row |-> IF c \in DOMAIN record THEN record[c] ELSE NULL]

\* UPDATE t SET (columns of record) WHERE key = k
update_row(row, record) ==
    [c \in DOMAIN row |-> IF c \in DOMAIN record THEN record[c] ELSE row[c]]

sql_update(table, k, record) ==
    [table EXCEPT ![k] = [n \in 1..Len(@) |-> update_row(@[n], record)]]

RowCount(table) ==
    LET RECURSIVE Sum(_)
        Sum(S) == IF S = {} THEN 0
                  ELSE LET k == CHOOSE x \in S : TRUE
                       IN Len(table[k]) + Sum(S \ {k})
    IN Sum(DOMAIN table)

\* ------------------------------------------------------------------ writer
ZeroResults ==
    [businesses_inserted |-> 0, reviews_inserted |-> 0,
     businesses_errors |-> <<>>, reviews_errors |-> <<>>]

DbError == "statement failed"

\* The result of a writer call: the transaction's tables and self.results
\* after it, the tuple it returns and the statements it handed to execute().
Outcome(t, res, success, value, stmts) ==
    [tx |-> t, results |-> res, ret |-> <<success, value>>, stmts |-> stmts]

\* except Exception in save_business
business_error(t, res, business_data, msg, stmts) ==
    Outcome(t,
            [res EXCEPT !.businesses_errors =
                Append(@, [place_id |-> business_data.place_id, error |-> msg])],
            FALSE, msg, stmts)

\* logger.info(f"... {business['name']} ({business['place_id']})") after the
\* write: a KeyError when name was dropped from the record.
business_logged(t, res, business_data, stmts) ==
    IF "name" \in DOMAIN business(business_data)
    THEN Outcome(t, res, TRUE, business(business_data).place_id, stmts)
    ELSE business_error(t, res, business_data, "'name'", stmts)

business_update(t, res, business_data, exec) ==
    IF exec = "write-raises"
    THEN business_error(t, res, business_data, DbError, <<"SELECT", "UPDATE">>)
    ELSE business_logged(
            [t EXCEPT !.businesses =
                sql_update(@, business(business_data).place_id,
                           business(business_data))],
            res, business_data, <<"SELECT", "UPDATE">>)

business_insert(t, res, business_data, exec) ==
    IF exec = "write-raises"
    THEN business_error(t, res, business_data, DbError, <<"SELECT", "INSERT">>)
    ELSE business_logged(
            [t EXCEPT !.businesses =
                sql_insert(@, BusinessColumns,
                           business(business_data).place_id,
                           business(business_data))],
            [res EXCEPT !.businesses_inserted = @ + 1],
            business_data, <<"SELECT", "INSERT">>)

\* save_business without its existence check: every save inserts.
save_business_always_insert(t, res, business_data, exec) ==
    IF "place_id" \notin DOMAIN business(business_data)
    THEN business_error(t, res, business_data, "'place_id'", <<>>)
    ELSE IF exec = "lookup-raises"
    THEN business_error(t, res, business_data, DbError, <<"SELECT">>)
    ELSE business_insert(t, res, business_data, exec)

save_business(t, res, business_data, exec) ==
    IF "place_id" \notin DOMAIN business(business_data)
    THEN business_error(t, res, business_data, "'place_id'", <<>>)
    ELSE IF exec = "lookup-raises"
    THEN business_error(t, res, business_data, DbError, <<"SELECT">>)
    ELSE IF fetchone(t.businesses, business(business_data).place_id)
    THEN business_update(t, res, business_data, exec)
    ELSE business_insert(t, res, business_data, exec)

\* The except clause of save_review without the append to reviews_errors.
review_error_silent(t, res, review, msg, stmts) ==
    Outcome(t, res, FALSE, msg, stmts)

\* except Exception in save_review
review_error(t, res, review, msg, stmts) ==
    Outcome(t,
            [res EXCEPT !.reviews_errors =
                Append(@, [review_id |-> review.review_id, error |-> msg])],
            FALSE, msg, stmts)

\* review_update that counts the update as an insert.
review_update_counted(t, res, rec, review, exec) ==
    IF exec = "write-raises"
    THEN review_error(t, res, review, DbError, <<"SELECT", "UPDATE">>)
    ELSE Outcome([t EXCEPT !.reviews = sql_update(@, rec.review_id, rec)],
                 [res EXCEPT !.reviews_inserted = @ + 1],
                 TRUE, rec.review_id, <<"SELECT", "UPDATE">>)

review_update(t, res, rec, review, exec) ==
    IF exec = "write-raises"
    THEN review_error(t, res, review, DbError, <<"SELECT", "UPDATE">>)
    ELSE Outcome([t EXCEPT !.reviews = sql_update(@, rec.review_id, rec)],
                 res, TRUE, rec.review_id, <<"SELECT", "UPDATE">>)

review_insert(t, res, rec, review, exec) ==
    IF exec = "write-raises"
    THEN review_error(t, res, review, DbError, <<"SELECT", "INSERT">>)
    ELSE Outcome([t EXCEPT !.reviews =
                     sql_insert(@, ReviewColumns, rec.review_id, rec)],
                 [res EXCEPT !.reviews_inserted = @ + 1],
                 TRUE, rec.review_id, <<"SELECT", "INSERT">>)

\* save_review with the branches of the existence check exchanged.
save_review_swapped(t, res, review, business_place_id, exec) ==
    LET rec == review_record(review, business_place_id)
    IN  IF "review_id" \notin DOMAIN rec
        THEN review_error(t, res, review, "'review_id'", <<>>)
        ELSE IF exec = "lookup-raises"
        THEN review_error(t, res, review, DbError, <<"SELECT">>)
        ELSE IF fetchone(t.reviews, rec.review_id)
        THEN review_insert(t, res, rec, review, exec)
        ELSE review_update(t, res, rec, review, exec)

save_review(t, res, review, business_place_id, exec) ==
    LET rec == review_record(review, business_place_id)
    IN  IF "review_id" \notin DOMAIN rec
        THEN review_error(t, res, review, "'review_id'", <<>>)
        ELSE IF exec = "lookup-raises"
        THEN review_error(t, res, review, DbError, <<"SELECT">>)
        ELSE IF fetchone(t.reviews, rec.review_id)
        THEN review_update(t, res, rec, review, exec)
        ELSE review_insert(t, res, rec, review, exec)


\* ------------------------------------------------------------------- state
VARIABLES
    db_config_ok,   \* all five DB_* settings are present (self.db_config)
    conn, cursor,   \* self.conn, self.cursor: "None", "open" or "closed"
    self_results,   \* self.results
    db,             \* the committed tables
    db_before,      \* the committed tables when the last save_data call began
    tx,             \* the tables as the open transaction sees them
    sd_pc,          \* position inside save_data
    data, i, j,     \* save_data: its argument, entries done, reviews done
    place_id,       \* save_data: the place_id of the entry at hand
    sd_ret,         \* what the last save_data call returned
    commits,        \* commit() calls of the save_data call at hand
    rollbacks,      \* rollback() calls of the save_data call at hand
    used,           \* entries and reviews of the payloads handed over so far
    batches,        \* save_data calls made by a direct caller
    main_pc,        \* position inside main of fetch_new_reviews
    total,          \* main: len(place_ids)
    idx,            \* main: the position in place_ids of the id at hand
    invoked,        \* main: the positions of the ids handed to
                    \* get_all_reviews_last_24, in order
    ended,          \* main: how each of these calls ended, in order
    last,           \* the last direct call of a writer: its arguments, the
                    \* tables before it and the tuple it returned
    pc,             \* position inside the polling call
    call,           \* the polling call under way
    place_ids,      \* the number of target ids of the call
    target,         \* the position of the target id being submitted
    attempt,        \* the attempt counter of the submission loop
    running_request_ids,
    results,        \* the jobs whose payload was collected, in order
    attempts,       \* the poll rounds left
    to_check,       \* list(running_request_ids) of the round, not yet checked
    k,              \* payloads of results handed to save_data
    outcome,        \* how the polling call ended: "returned" or "raised"
    throws,         \* submissions for the target at hand that raised
    submissions,    \* submissions made for the target at hand
    rounds,         \* poll rounds begun
    polled,         \* a status check was made
    succeeded,      \* the jobs whose status check said Success, in order
    saved           \* the jobs whose payload was handed to save_data, in order

sdvars == <<conn, cursor, self_results, db, db_before, tx, sd_pc, data, i, j,
            place_id, sd_ret, commits, rollbacks, used>>
pollvars == <<pc, call, place_ids, target, attempt, running_request_ids,
              results, attempts, to_check, k, outcome, throws, submissions,
              rounds, polled, succeeded, saved>>
mainvars == <<main_pc, total, idx, invoked, ended>>
vars == <<db_config_ok, batches, last, sdvars, pollvars, mainvars>>

InitStore ==
    /\ db_config_ok \in BOOLEAN
    /\ conn = None /\ cursor = None
    /\ self_results = ZeroResults
    /\ db = EmptyStore /\ tx = EmptyStore /\ db_before = EmptyStore
    /\ sd_pc = "idle"
    /\ data = <<>> /\ i = 0 /\ j = 0 /\ place_id = None
    /\ sd_ret = <<>>
    /\ commits = 0 /\ rollbacks = 0
    /\ used = 0
    /\ batches = 0
    /\ last = [op |-> None]

Init ==
    /\ InitStore
    /\ pc = "start" /\ call = None
    /\ place_ids = 0 /\ target = 0 /\ attempt = 0
    /\ running_request_ids = {} /\ results = <<>>
    /\ attempts = 0 /\ to_check = {} /\ k = 0
    /\ outcome = None
    /\ throws = 0 /\ submissions = 0 /\ rounds = 0
    /\ polled = FALSE /\ succeeded = <<>> /\ saved = <<>>
    /\ main_pc = "start" /\ total = 0 /\ idx = 0
    /\ invoked = <<>> /\ ended = <<>>

\* --------------------------------------------------------------- save_data
\* close_connection() that closes nothing.
closed_never(c) == c

\* close_connection(): closes what is there, leaves the attributes set.
closed(c) == IF c = None THEN None ELSE "closed"

\* The finally clause, and the frame of save_data going away.
save_data_leave ==
    /\ conn' = closed(conn) /\ cursor' = closed(cursor)
    /\ tx' = db
    /\ sd_pc' = "idle"
    /\ data' = <<>> /\ i' = 0 /\ j' = 0 /\ place_id' = None

\* save_data_except without the rollback: what was written stays.
save_data_except_keep(message) ==
    /\ sd_ret' = <<"error", message>>
    /\ conn' = closed(conn) /\ cursor' = closed(cursor)
    /\ db' = tx /\ tx' = tx
    /\ sd_pc' = "idle"
    /\ data' = <<>> /\ i' = 0 /\ j' = 0 /\ place_id' = None
    /\ rollbacks' = IF conn # None THEN rollbacks + 1 ELSE rollbacks
    /\ UNCHANGED <<db_before, self_results, commits>>

\* save_data_except whose rollback reaches back over the commits of earlier
\* calls.
save_data_except_wipes(message) ==
    /\ sd_ret' = <<"error", message>>
    /\ conn' = closed(conn) /\ cursor' = closed(cursor)
    /\ db' = EmptyStore /\ tx' = EmptyStore
    /\ sd_pc' = "idle"
    /\ data' = <<>> /\ i' = 0 /\ j' = 0 /\ place_id' = None
    /\ rollbacks' = IF conn # None THEN rollbacks + 1 ELSE rollbacks
    /\ UNCHANGED <<db_before, self_results, commits>>

\* except Exception in save_data: rollback when there is a connection, and
\* return {'status': 'error', 'message': ...}
save_data_except(message) ==
    /\ sd_ret' = <<"error", message>>
    /\ save_data_leave
    /\ rollbacks' = IF conn # None THEN rollbacks + 1 ELSE rollbacks
    /\ UNCHANGED <<db, db_before, self_results, commits>>

\* connect_to_db(): the configuration is validated, then psycopg2.connect
\* returns (connected) or raises.
connect_to_db(connected) == db_config_ok /\ connected

\* save_data_begin without the reset of self.results.
save_data_begin_no_reset(d, connected) ==
    /\ sd_pc = "idle"
    /\ commits' = 0 /\ rollbacks' = 0
    /\ db_before' = db
    /\ used' = used + Len(d) + SumSeq(d)
    /\ IF connect_to_db(connected)
       THEN /\ conn' = "open" /\ cursor' = "open"
            /\ tx' = db
            /\ sd_pc' = "loop"
            /\ data' = d /\ i' = 0 /\ j' = 0 /\ place_id' = None
            /\ sd_ret' = <<>>
            /\ UNCHANGED <<db, self_results>>
       ELSE /\ sd_ret' = <<"error", IF db_config_ok THEN "connect failed"
                                    ELSE "Missing database configuration">>
            /\ save_data_leave
            /\ UNCHANGED <<db, self_results>>

\* save_data_begin whose connection failure is raised into the except clause,
\* which rolls back on the connection an earlier call left behind.
save_data_begin_failure_raised(d, connected) ==
    /\ sd_pc = "idle"
    /\ commits' = 0
    /\ db_before' = db
    /\ used' = used + Len(d) + SumSeq(d)
    /\ IF connect_to_db(connected)
       THEN /\ conn' = "open" /\ cursor' = "open"
            /\ tx' = db
            /\ self_results' = ZeroResults
            /\ sd_pc' = "loop"
            /\ data' = d /\ i' = 0 /\ j' = 0 /\ place_id' = None
            /\ sd_ret' = <<>>
            /\ rollbacks' = 0
            /\ UNCHANGED db
       ELSE /\ sd_ret' = <<"error", IF db_config_ok THEN "connect failed"
                                    ELSE "Missing database configuration">>
            /\ save_data_leave
            /\ rollbacks' = IF conn # None THEN 1 ELSE 0
            /\ UNCHANGED <<db, self_results>>

\* The start of save_data(d): connect_to_db(), then the reset of self.results.
save_data_begin(d, connected) ==
    /\ sd_pc = "idle"
    /\ commits' = 0 /\ rollbacks' = 0
    /\ db_before' = db
    /\ used' = used + Len(d) + SumSeq(d)
    /\ IF connect_to_db(connected)
       THEN /\ conn' = "open" /\ cursor' = "open"
            /\ tx' = db
            /\ self_results' = ZeroResults
            /\ sd_pc' = "loop"
            /\ data' = d /\ i' = 0 /\ j' = 0 /\ place_id' = None
            /\ sd_ret' = <<>>
            /\ UNCHANGED db
       ELSE /\ sd_ret' = <<"error", IF db_config_ok THEN "connect failed"
                                    ELSE "Missing database configuration">>
            /\ save_data_leave
            /\ UNCHANGED <<db, self_results>>

\* next_entry that takes up the reviews of an entry at the last one.
next_entry_from_last(has_reviews) ==
    IF has_reviews
    THEN sd_pc' = "reviews" /\ j' = data[i + 1] - 1 /\ i' = i
    ELSE sd_pc' = "loop" /\ j' = 0 /\ i' = i + 1

\* After the entry at hand: on to its reviews, or to the next entry.
next_entry(has_reviews) ==
    IF has_reviews
    THEN sd_pc' = "reviews" /\ j' = 0 /\ i' = i
    ELSE sd_pc' = "loop" /\ j' = 0 /\ i' = i + 1

\* save_data_business that tests the place_id against the empty string only.
save_data_business_none_passes(business_data, exec) ==
    /\ sd_pc = "loop" /\ i < Len(data)
    /\ place_id' = business_data.place_id
    /\ IF business_data.place_id # ""
       THEN LET out == save_business(tx, self_results, business_data, exec)
            IN  /\ tx' = out.tx
                /\ self_results' = out.results
                /\ next_entry(data[i + 1] > 0)
       ELSE /\ self_results' =
                [self_results EXCEPT !.businesses_errors =
                    Append(@, [place_id |-> "unknown",
                               error |-> "No place_id provided for business"])]
            /\ next_entry(FALSE)
            /\ UNCHANGED tx
    /\ UNCHANGED <<conn, cursor, db, db_before, data, sd_ret, commits,
                   rollbacks, used>>

\* save_data_business that skips the reviews of a business whose own write
\* failed.
save_data_business_drops_reviews(business_data, exec) ==
    /\ sd_pc = "loop" /\ i < Len(data)
    /\ place_id' = business_data.place_id
    /\ IF Truthy(business_data.place_id)
       THEN LET out == save_business(tx, self_results, business_data, exec)
            IN  /\ tx' = out.tx
                /\ self_results' = out.results
                /\ next_entry(out.ret[1] /\ data[i + 1] > 0)
       ELSE /\ self_results' =
                [self_results EXCEPT !.businesses_errors =
                    Append(@, [place_id |-> "unknown",
                               error |-> "No place_id provided for business"])]
            /\ next_entry(FALSE)
            /\ UNCHANGED tx
    /\ UNCHANGED <<conn, cursor, db, db_before, data, sd_ret, commits,
                   rollbacks, used>>

\* save_data_business that goes on to the reviews of an entry without a
\* place_id.
save_data_business_keeps_reviews(business_data, exec) ==
    /\ sd_pc = "loop" /\ i < Len(data)
    /\ place_id' = business_data.place_id
    /\ IF Truthy(business_data.place_id)
       THEN LET out == save_business(tx, self_results, business_data, exec)
            IN  /\ tx' = out.tx
                /\ self_results' = out.results
                /\ next_entry(data[i + 1] > 0)
       ELSE /\ self_results' =
                [self_results EXCEPT !.businesses_errors =
                    Append(@, [place_id |-> "unknown",
                               error |-> "No place_id provided for business"])]
            /\ next_entry(data[i + 1] > 0)
            /\ UNCHANGED tx
    /\ UNCHANGED <<conn, cursor, db, db_before, data, sd_ret, commits,
                   rollbacks, used>>

\* One pass of "for business_data in data" up to the review loop, for an
\* entry that is a dict.
save_data_business(business_data, exec) ==
    /\ sd_pc = "loop" /\ i < Len(data)
    /\ place_id' = business_data.place_id
    /\ IF Truthy(business_data.place_id)
       THEN LET out == save_business(tx, self_results, business_data, exec)
            IN  /\ tx' = out.tx
                /\ self_results' = out.results
                /\ next_entry(data[i + 1] > 0)
       ELSE /\ self_results' =
                [self_results EXCEPT !.businesses_errors =
                    Append(@, [place_id |-> "unknown",
                               error |-> "No place_id provided for business"])]
            /\ next_entry(FALSE)
            /\ UNCHANGED tx
    /\ UNCHANGED <<conn, cursor, db, db_before, data, sd_ret, commits,
                   rollbacks, used>>

\* An entry that is not a dict: business_data.get raises, which the except
\* clause of save_data catches.
save_data_bad_entry ==
    /\ sd_pc = "loop" /\ i < Len(data)
    /\ save_data_except("'str' object has no attribute 'get'")
    /\ UNCHANGED used

\* One pass of "for review in reviews_data".
save_data_review(review, exec) ==
    /\ sd_pc = "reviews"
    /\ LET out == save_review(tx, self_results, review, place_id, exec)
       IN  /\ tx' = out.tx
           /\ self_results' = out.results
    /\ IF j + 1 = data[i + 1]
       THEN sd_pc' = "loop" /\ j' = 0 /\ i' = i + 1
       ELSE sd_pc' = "reviews" /\ j' = j + 1 /\ i' = i
    /\ UNCHANGED <<conn, cursor, db, db_before, data, place_id, sd_ret, commits,
                   rollbacks,
                   used>>

\* save_data_commit reached one entry early.
save_data_commit_early(committed) ==
    /\ sd_pc = "loop" /\ i + 1 >= Len(data)
    /\ IF committed
       THEN /\ db' = tx /\ commits' = commits + 1
            /\ sd_pc' = "committed"
            /\ UNCHANGED <<conn, cursor, tx, db_before, self_results, sd_ret,
                           data, i, j, place_id, rollbacks>>
       ELSE save_data_except("commit failed")
    /\ UNCHANGED used

\* self.conn.commit() after the loop; committed: whether it returns.
save_data_commit(committed) ==
    /\ sd_pc = "loop" /\ i = Len(data)
    /\ IF committed
       THEN /\ db' = tx /\ commits' = commits + 1
            /\ sd_pc' = "committed"
            /\ UNCHANGED <<conn, cursor, tx, db_before, self_results, sd_ret,
                           data, i, j, place_id, rollbacks>>
       ELSE save_data_except("commit failed")
    /\ UNCHANGED used

\* The summary log lines, return {'status': 'success', ...} and the finally
\* clause.
save_data_return ==
    /\ sd_pc = "committed"
    /\ sd_ret' = <<"success", self_results>>
    /\ save_data_leave
    /\ UNCHANGED <<self_results, db, db_before, commits, rollbacks, used>>

\* The steps of a save_data call that is under way, for entries, reviews and
\* statement outcomes drawn from B, R and E.
SaveDataStep(B, R, E) ==
    \/ \E business_data \in B, exec \in E :
          save_data_business(business_data, exec)
    \/ save_data_bad_entry
    \/ \E review \in R, exec \in E : save_data_review(review, exec)
    \/ \E committed \in BOOLEAN : save_data_commit(committed)
    \/ save_data_return

\* A direct caller hands a payload to save_data.
CallSaveData ==
    /\ batches < MaxBatches
    /\ batches' = batches + 1
    /\ \E d \in ShapesWithin(MaxRecords - used), connected \in BOOLEAN :
          save_data_begin(d, connected)

\* The runs of a caller that hands payloads to save_data, one after another.
NextStore ==
    \/ CallSaveData /\ UNCHANGED <<db_config_ok, mainvars, last, pollvars>>
    \/ SaveDataStep(RawBusiness, RawReview, ExecOutcomes)
          /\ UNCHANGED <<db_config_ok, mainvars, last, batches, pollvars>>

SpecStore == Init /\ [][NextStore]_vars

\* ------------------------------------------------------------ direct calls
\* A caller that opens the connection itself and calls the writers one by
\* one, as the tests of the writers do.  The business entries it hands over
\* have a place_id of the store or none.
DirectBusiness == {b \in RawBusiness : b.place_id # ""}

\* scraper.connect_to_db()
CallConnect(connected) ==
    /\ sd_pc = "idle" /\ conn = None
    /\ connect_to_db(connected)
    /\ conn' = "open" /\ cursor' = "open"
    /\ UNCHANGED <<self_results, db, db_before, tx, sd_pc, data, i, j,
                   place_id, sd_ret, commits, rollbacks, used, last>>

\* scraper.save_business(business_data)
CallSaveBusiness(business_data, exec) ==
    /\ sd_pc = "idle" /\ conn = "open" /\ used < MaxCalls
    /\ LET out == save_business(tx, self_results, business_data, exec)
       IN  /\ tx' = out.tx
           /\ self_results' = out.results
           /\ last' = [op |-> "save_business", input |-> business_data,
                       exec |-> exec, before |-> tx,
                       results_before |-> self_results,
                       ret |-> out.ret, stmts |-> out.stmts]
    /\ used' = used + 1
    /\ UNCHANGED <<conn, cursor, db, db_before, sd_pc, data, i, j, place_id,
                   sd_ret, commits, rollbacks>>

\* scraper.save_review(review, business_place_id)
CallSaveReview(review, business_place_id, exec) ==
    /\ sd_pc = "idle" /\ conn = "open" /\ used < MaxCalls
    /\ LET out == save_review(tx, self_results, review, business_place_id, exec)
       IN  /\ tx' = out.tx
           /\ self_results' = out.results
           /\ last' = [op |-> "save_review", input |-> review,
                       business_place_id |-> business_place_id,
                       exec |-> exec, before |-> tx,
                       results_before |-> self_results,
                       ret |-> out.ret, stmts |-> out.stmts]
    /\ used' = used + 1
    /\ UNCHANGED <<conn, cursor, db, db_before, sd_pc, data, i, j, place_id,
                   sd_ret, commits, rollbacks>>

NextWriter ==
    \/ \E connected \in BOOLEAN :
          CallConnect(connected) /\ UNCHANGED <<db_config_ok, mainvars, batches, pollvars>>
    \/ \E business_data \in DirectBusiness, exec \in ExecOutcomes :
          CallSaveBusiness(business_data, exec)
             /\ UNCHANGED <<db_config_ok, mainvars, batches, pollvars>>
    \/ \E review \in RawReview, business_place_id \in PlaceIds,
          exec \in ExecOutcomes :
          CallSaveReview(review, business_place_id, exec)
             /\ UNCHANGED <<db_config_ok, mainvars, batches, pollvars>>

SpecWriter == Init /\ [][NextWriter]_vars

\* ------------------------------------------------------------------ poller
\* The provider gives every job an id of its own: a job is named here by the
\* position of its target id in place_ids.

\* An exception leaves the polling call.  (In get_all_reviews_last_24 the
\* outer except clause logs it and raises it again.)
raise_to_caller ==
    /\ outcome' = "raised"
    /\ pc' = "done"

\* begin_poll with a budget one round too large.
begin_poll_one_more(budget) ==
    /\ pc' = "poll"
    /\ attempts' = budget + 1

\* The submission loop is over: attempts = 10, or attempts = 20.
begin_poll(budget) ==
    /\ pc' = "poll"
    /\ attempts' = budget

\* get_all_reviews(place_ids) is called with n target ids.
get_all_reviews(n) ==
    /\ pc = "start"
    /\ call' = "get_all_reviews"
    /\ place_ids' = n /\ target' = 1 /\ attempt' = 0
    /\ running_request_ids' = {} /\ results' = <<>>
    /\ IF n = 0 THEN begin_poll(PollRoundsAll)
       ELSE pc' = "submit" /\ UNCHANGED attempts
    /\ UNCHANGED <<to_check, k, outcome, throws, submissions, rounds, polled,
                   succeeded, saved>>

\* get_all_reviews_submit that logs a failed submission and goes on.
get_all_reviews_submit_swallow(raises) ==
    /\ pc = "submit" /\ call = "get_all_reviews"
    /\ IF raises
       THEN /\ throws' = throws + 1
            /\ UNCHANGED running_request_ids
       ELSE /\ running_request_ids' = running_request_ids \cup {target}
            /\ UNCHANGED throws
    /\ submissions' = submissions + 1
    /\ IF target < place_ids
       THEN target' = target + 1 /\ UNCHANGED <<pc, attempts>>
       ELSE begin_poll(PollRoundsAll) /\ UNCHANGED target
    /\ UNCHANGED <<call, place_ids, attempt, outcome, results, to_check, k,
                   rounds, polled, succeeded, saved>>

\* One pass of "for attempt in range(3)" in get_all_reviews: the submission
\* returns a job id, or raises; the except clause logs and raises, the else
\* clause breaks.
get_all_reviews_submit(raises) ==
    /\ pc = "submit" /\ call = "get_all_reviews"
    /\ IF raises
       THEN /\ throws' = throws + 1
            /\ submissions' = submissions + 1
            /\ raise_to_caller
            /\ UNCHANGED <<running_request_ids, target, attempt, attempts>>
       ELSE /\ running_request_ids' = running_request_ids \cup {target}
            /\ IF target < place_ids
               THEN /\ target' = target + 1 /\ attempt' = 0
                    /\ throws' = 0 /\ submissions' = 0
                    /\ UNCHANGED <<pc, attempts>>
               ELSE /\ begin_poll(PollRoundsAll)
                    /\ submissions' = submissions + 1
                    /\ UNCHANGED <<target, attempt, throws>>
            /\ UNCHANGED outcome
    /\ UNCHANGED <<call, place_ids, results, to_check, k, rounds, polled,
                   succeeded, saved>>

\* get_all_reviews_last_24(place_id) is called.
get_all_reviews_last_24 ==
    /\ pc = "start"
    /\ call' = "get_all_reviews_last_24"
    /\ place_ids' = 1 /\ target' = 1 /\ attempt' = 0
    /\ running_request_ids' = {} /\ results' = <<>>
    /\ pc' = "submit"
    /\ UNCHANGED <<attempts, to_check, k, outcome, throws, submissions, rounds,
                   polled, succeeded, saved>>

\* One pass of "for attempt in range(3)" in get_all_reviews_last_24: a
\* submission that returns breaks; one that raises is logged and, on the
\* last attempt, raised again.
get_all_reviews_last_24_submit(raises) ==
    /\ pc = "submit" /\ call = "get_all_reviews_last_24"
    /\ submissions' = submissions + 1
    /\ IF raises
       THEN /\ throws' = throws + 1
            /\ IF attempt = LastAttempt
               THEN raise_to_caller /\ UNCHANGED <<attempt, attempts>>
               ELSE IF attempt + 1 < SubmitAttempts
               THEN attempt' = attempt + 1 /\ UNCHANGED <<pc, outcome, attempts>>
               ELSE begin_poll(PollRoundsLast24) /\ UNCHANGED <<attempt, outcome>>
            /\ UNCHANGED running_request_ids
       ELSE /\ running_request_ids' = running_request_ids \cup {target}
            /\ begin_poll(PollRoundsLast24)
            /\ UNCHANGED <<attempt, outcome, throws>>
    /\ UNCHANGED <<call, place_ids, target, results, to_check, k, rounds,
                   polled, succeeded, saved>>

\* while attempts and running_request_ids: attempts -= 1; time.sleep(30);
\* for request_id in list(running_request_ids)
poll_round ==
    /\ pc = "poll"
    /\ attempts # 0 /\ running_request_ids # {}
    /\ attempts' = attempts - 1
    /\ rounds' = rounds + 1
    /\ to_check' = running_request_ids
    /\ pc' = "check"
    /\ UNCHANGED <<call, place_ids, target, attempt, running_request_ids,
                   results, k, outcome, throws, submissions, polled, succeeded,
                   saved>>

\* poll_exit that treats jobs left pending as an error.
poll_exit_raises ==
    /\ pc = "poll"
    /\ ~(attempts # 0 /\ running_request_ids # {})
    /\ IF running_request_ids # {}
       THEN raise_to_caller /\ UNCHANGED k
       ELSE pc' = "persist" /\ k' = 0 /\ UNCHANGED outcome
    /\ UNCHANGED <<call, place_ids, target, attempt, running_request_ids,
                   results, attempts, to_check, throws, submissions, rounds,
                   polled, succeeded, saved>>

\* The while condition is false: on to "for result in results".
poll_exit ==
    /\ pc = "poll"
    /\ ~(attempts # 0 /\ running_request_ids # {})
    /\ pc' = "persist" /\ k' = 0
    /\ UNCHANGED <<call, place_ids, target, attempt, running_request_ids,
                   results, attempts, to_check, outcome, throws, submissions,
                   rounds, polled, succeeded, saved>>

StatusOutcomes == {"Success", "Pending", "raises"}

\* status_check that leaves a resolved job in the pending set.
status_check_keeps_pending(request_id, status) ==
    /\ pc = "check" /\ request_id \in to_check
    /\ polled' = TRUE
    /\ succeeded' = IF status = "Success" THEN Append(succeeded, request_id)
                    ELSE succeeded
    /\ IF status = "raises"
       THEN /\ raise_to_caller
            /\ UNCHANGED <<results, running_request_ids, to_check>>
       ELSE /\ results' = IF status = "Success" THEN Append(results, request_id)
                          ELSE results
            /\ to_check' = to_check \ {request_id}
            /\ pc' = IF to_check' = {} THEN "poll" ELSE "check"
            /\ UNCHANGED <<outcome, running_request_ids>>
    /\ UNCHANGED <<call, place_ids, target, attempt, attempts, k, throws,
                   submissions, rounds, saved>>

\* status_check that collects the payload of every status that is returned.
status_check_any(request_id, status) ==
    /\ pc = "check" /\ request_id \in to_check
    /\ polled' = TRUE
    /\ succeeded' = IF status = "Success" THEN Append(succeeded, request_id)
                    ELSE succeeded
    /\ IF status = "raises"
       THEN /\ raise_to_caller
            /\ UNCHANGED <<results, running_request_ids, to_check>>
       ELSE /\ results' = Append(results, request_id)
            /\ running_request_ids' = running_request_ids \ {request_id}
            /\ to_check' = to_check \ {request_id}
            /\ pc' = IF to_check' = {} THEN "poll" ELSE "check"
            /\ UNCHANGED outcome
    /\ UNCHANGED <<call, place_ids, target, attempt, attempts, k, throws,
                   submissions, rounds, saved>>

\* status_check whose exception ends the polling and lets the payloads
\* collected so far be saved.
status_check_saves_on_error(request_id, status) ==
    /\ pc = "check" /\ request_id \in to_check
    /\ polled' = TRUE
    /\ succeeded' = IF status = "Success" THEN Append(succeeded, request_id)
                    ELSE succeeded
    /\ IF status = "raises"
       THEN /\ pc' = "persist"
            /\ UNCHANGED <<outcome, results, running_request_ids, to_check>>
       ELSE /\ IF status = "Success"
               THEN /\ results' = Append(results, request_id)
                    /\ running_request_ids' = running_request_ids \ {request_id}
               ELSE UNCHANGED <<results, running_request_ids>>
            /\ to_check' = to_check \ {request_id}
            /\ pc' = IF to_check' = {} THEN "poll" ELSE "check"
            /\ UNCHANGED outcome
    /\ UNCHANGED <<call, place_ids, target, attempt, attempts, k, throws,
                   submissions, rounds, saved>>

\* result = self.client.get_request_archive(request_id) and what follows it
\* in the round.
status_check(request_id, status) ==
    /\ pc = "check" /\ request_id \in to_check
    /\ polled' = TRUE
    /\ succeeded' = IF status = "Success" THEN Append(succeeded, request_id)
                    ELSE succeeded
    /\ IF status = "raises"
       THEN /\ raise_to_caller
            /\ UNCHANGED <<results, running_request_ids, to_check>>
       ELSE /\ IF status = "Success"
               THEN /\ results' = Append(results, request_id)
                    /\ running_request_ids' = running_request_ids \ {request_id}
               ELSE UNCHANGED <<results, running_request_ids>>
            /\ to_check' = to_check \ {request_id}
            /\ pc' = IF to_check' = {} THEN "poll" ELSE "check"
            /\ UNCHANGED outcome
    /\ UNCHANGED <<call, place_ids, target, attempt, attempts, k, throws,
                   submissions, rounds, saved>>

\* One pass of "for result in results": self.save_data(result).
persist(d, connected) ==
    /\ pc = "persist" /\ k < Len(results)
    /\ save_data_begin(d, connected)
    /\ saved' = Append(saved, results[k + 1])
    /\ k' = k + 1
    /\ UNCHANGED <<pc, call, place_ids, target, attempt, running_request_ids,
                   results, attempts, to_check, outcome, throws, submissions,
                   rounds, polled, succeeded>>

\* "for result in results" is over: the polling call returns.
poll_return ==
    /\ pc = "persist" /\ k = Len(results) /\ sd_pc = "idle"
    /\ outcome' = "returned"
    /\ pc' = "done"
    /\ UNCHANGED <<call, place_ids, target, attempt, running_request_ids,
                   results, attempts, to_check, k, throws, submissions, rounds,
                   polled, succeeded, saved>>

\* The entries, reviews and statement outcomes of the runs of the poller: a
\* named business with or without its place_id, a well-formed review, and
\* statements that succeed.
ProviderBusiness ==
    {b \in RawBusiness :
        b.place_id \in {None, "p1"} /\ b.name = "a" /\ b.popular_times = None}
ProviderReview ==
    {r \in RawReview : r.review_id = "r1" /\ r.review_datetime_utc = DtGood}
ProviderExec == {"ok"}

Next ==
    \/ \E n \in 0..MaxTargets :
          get_all_reviews(n) /\ UNCHANGED <<db_config_ok, mainvars, last, batches, sdvars>>
    \/ \E raises \in BOOLEAN :
          get_all_reviews_submit(raises)
             /\ UNCHANGED <<db_config_ok, mainvars, last, batches, sdvars>>
    \/ get_all_reviews_last_24 /\ UNCHANGED <<db_config_ok, mainvars, last, batches, sdvars>>
    \/ \E raises \in BOOLEAN :
          get_all_reviews_last_24_submit(raises)
             /\ UNCHANGED <<db_config_ok, mainvars, last, batches, sdvars>>
    \/ poll_round /\ UNCHANGED <<db_config_ok, mainvars, last, batches, sdvars>>
    \/ poll_exit /\ UNCHANGED <<db_config_ok, mainvars, last, batches, sdvars>>
    \/ \E request_id \in to_check, status \in StatusOutcomes :
          status_check(request_id, status)
             /\ UNCHANGED <<db_config_ok, mainvars, last, batches, sdvars>>
    \/ \E d \in ShapesWithin(MaxRecords - used), connected \in BOOLEAN :
          persist(d, connected) /\ UNCHANGED <<db_config_ok, mainvars, last, batches>>
    \/ poll_return /\ UNCHANGED <<db_config_ok, mainvars, last, batches, sdvars>>
    \/ SaveDataStep(ProviderBusiness, ProviderReview, ProviderExec)
          /\ UNCHANGED <<db_config_ok, mainvars, last, batches, pollvars>>

Spec == Init /\ [][Next]_vars

\* The program is sequential: while a step is possible, one is taken.
FairSpec == Spec /\ WF_vars(Next)

\* -------------------------------------------------------- fetch_new_reviews
\* main(): Outscraper() and fetch_active_subscription_business_ids() return
\* (ready, which takes the database settings) or raise, which the outer
\* except clause logs; an empty list ends main with a warning.
main(n, ready) ==
    /\ main_pc = "start" /\ pc = "start"
    /\ IF db_config_ok /\ ready /\ n > 0
       THEN main_pc' = "loop" /\ total' = n
       ELSE main_pc' = "returned" /\ total' = 0
    /\ UNCHANGED <<idx, invoked, ended>>

\* for idx, place_id in enumerate(place_ids, 1):
\*     scraper.get_all_reviews_last_24(place_id)
main_call ==
    /\ main_pc = "loop" /\ idx < total
    /\ get_all_reviews_last_24
    /\ idx' = idx + 1
    /\ invoked' = Append(invoked, idx + 1)
    /\ main_pc' = "call"
    /\ UNCHANGED <<total, ended>>

\* The locals of a polling call that is over go away.
poll_frame_gone ==
    /\ pc' = "start" /\ call' = None
    /\ place_ids' = 0 /\ target' = 0 /\ attempt' = 0
    /\ running_request_ids' = {} /\ results' = <<>>
    /\ attempts' = 0 /\ to_check' = {} /\ k' = 0
    /\ outcome' = None
    /\ throws' = 0 /\ submissions' = 0 /\ rounds' = 0
    /\ polled' = FALSE /\ succeeded' = <<>> /\ saved' = <<>>

\* main_next without the inner try: an exception of the call ends the loop
\* in the outer except clause.
main_next_stops ==
    /\ main_pc = "call" /\ pc = "done"
    /\ ended' = Append(ended, outcome)
    /\ main_pc' = IF outcome = "raised" THEN "returned" ELSE "loop"
    /\ poll_frame_gone
    /\ UNCHANGED <<total, idx, invoked>>

\* The call returned, or raised into "except Exception ... continue": on to
\* the next id.
main_next ==
    /\ main_pc = "call" /\ pc = "done"
    /\ ended' = Append(ended, outcome)
    /\ main_pc' = "loop"
    /\ poll_frame_gone
    /\ UNCHANGED <<total, idx, invoked>>

\* The for loop is over: main returns.
main_return ==
    /\ main_pc = "loop" /\ idx = total
    /\ main_pc' = "returned"
    /\ UNCHANGED <<total, idx, invoked, ended>>

NextMain ==
    \/ \E n \in 0..MaxTargets, ready \in BOOLEAN :
          main(n, ready)
             /\ UNCHANGED <<db_config_ok, last, batches, sdvars, pollvars>>
    \/ main_call /\ UNCHANGED <<db_config_ok, last, batches, sdvars>>
    \/ \E raises \in BOOLEAN :
          get_all_reviews_last_24_submit(raises)
             /\ UNCHANGED <<db_config_ok, mainvars, last, batches, sdvars>>
    \/ poll_round /\ UNCHANGED <<db_config_ok, mainvars, last, batches, sdvars>>
    \/ poll_exit /\ UNCHANGED <<db_config_ok, mainvars, last, batches, sdvars>>
    \/ \E request_id \in to_check, status \in StatusOutcomes :
          status_check(request_id, status)
             /\ UNCHANGED <<db_config_ok, mainvars, last, batches, sdvars>>
    \/ \E d \in ShapesWithin(MaxRecords - used), connected \in BOOLEAN :
          persist(d, connected) /\ UNCHANGED <<db_config_ok, mainvars, last, batches>>
    \/ poll_return /\ UNCHANGED <<db_config_ok, mainvars, last, batches, sdvars>>
    \/ SaveDataStep(ProviderBusiness, ProviderReview, ProviderExec)
          /\ UNCHANGED <<db_config_ok, mainvars, last, batches, pollvars>>
    \/ main_next /\ UNCHANGED <<db_config_ok, last, batches, sdvars>>
    \/ main_return /\ UNCHANGED <<db_config_ok, last, batches, sdvars, pollvars>>

SpecMain == Init /\ [][NextMain]_vars

\* ------------------------------------------------------------------ claims
StoredKeys(table) == {key \in DOMAIN table : Len(table[key]) > 0}
Range(s) == {s[n] : n \in 1..Len(s)}
InBatch == sd_pc \in {"loop", "reviews"}
Returned(status) == sd_pc = "idle" /\ Len(sd_ret) = 2 /\ sd_ret[1] = status
Budget ==
    IF call = "get_all_reviews" THEN PollRoundsAll ELSE PollRoundsLast24

\* C1: the businesses table never holds two rows with one place_id, neither
\* committed nor inside a transaction, and while a batch is written
\* businesses_inserted is the number of place ids the batch has added to the
\* table: a save of a place_id that is stored already, by this batch or by an
\* earlier one, updates its row, adds none and counts nothing.
C1_OneRowPerPlaceId ==
    /\ \A key \in PlaceIds :
          Len(db.businesses[key]) <= 1 /\ Len(tx.businesses[key]) <= 1
    /\ InBatch =>
          self_results.businesses_inserted =
             Cardinality(StoredKeys(tx.businesses) \ StoredKeys(db.businesses))

\* C1 witness: in a second batch, an entry whose place_id an earlier batch
\* committed was saved without error: its row was updated, nothing inserted.
C1_Witness ==
    /\ batches = 2 /\ InBatch
    /\ place_id \in PlaceIds
    /\ fetchone(db.businesses, place_id)
    /\ self_results.businesses_errors = <<>>
    /\ self_results.businesses_inserted = 0
    /\ Len(tx.businesses[place_id]) = 1

\* C2: the reviews table never holds two rows with one review_id, and while
\* a batch is written reviews_inserted is the number of review ids the batch
\* has added to the table: one count for each review_id that was not stored,
\* none for a review_id that is repeated in the batch or was stored before,
\* whose save is an update.
C2_ReviewsInsertedOncePerNewId ==
    /\ \A key \in ReviewIds :
          Len(db.reviews[key]) <= 1 /\ Len(tx.reviews[key]) <= 1
    /\ InBatch =>
          self_results.reviews_inserted =
             Cardinality(StoredKeys(tx.reviews) \ StoredKeys(db.reviews))

\* C2 witness: both reviews of an entry were saved without error into an
\* empty table and left one row and a count of one: the second one repeated
\* the review_id of the first and was an update.
C2_Witness ==
    /\ sd_pc = "loop" /\ data = <<2>> /\ i = 1
    /\ self_results.reviews_errors = <<>>
    /\ self_results.reviews_inserted = 1
    /\ StoredKeys(db.reviews) = {}
    /\ Cardinality(StoredKeys(tx.reviews)) = 1

\* C3: the poll loop begins at most 10 rounds in get_all_reviews and at most
\* 20 in get_all_reviews_last_24, each round takes one from the budget, a
\* round begins only with a job pending and budget left, the loop is left
\* only with no job pending or no budget left, and every polling call ends.
C3_PollStateBounded ==
    /\ call = "get_all_reviews" => rounds <= PollRoundsAll
    /\ call = "get_all_reviews_last_24" => rounds <= PollRoundsLast24
    /\ pc \in {"poll", "check", "persist"} => attempts + rounds = Budget
    /\ pc = "check" => attempts >= 0 /\ to_check # {}
                       /\ to_check \subseteq running_request_ids
    /\ pc = "persist" \/ outcome = "returned" =>
          attempts = 0 \/ running_request_ids = {}

C4_AbandonedSilently ==
    /\ Range(saved) \cap running_request_ids = {}
    /\ outcome = "raised" => (~polled /\ rounds = 0) \/ to_check # {}
    /\ outcome = "returned" => saved = results

\* C4 witness: a call returned with one job still pending after the last
\* round and the payload of another one persisted.
C4_Witness ==
    /\ outcome = "returned" /\ attempts = 0
    /\ running_request_ids # {}
    /\ saved # <<>> /\ saved = results

\* C5: the payloads handed to save_data are those of the jobs whose status
\* check said Success, each one once and in the order of the Success
\* answers; a call that returns has handed over all of them.
C5_ResolvedSavedOnceInOrder ==
    /\ k = Len(saved)
    /\ Len(saved) <= Len(succeeded)
    /\ \A n \in 1..Len(saved) : saved[n] = succeeded[n]
    /\ Cardinality(Range(succeeded)) = Len(succeeded)
    /\ outcome = "returned" => saved = succeeded

\* C5 witness: two jobs resolved in the order opposite to their submission
\* and both payloads were handed over, in the order they resolved.
C5_Witness ==
    /\ outcome = "returned"
    /\ succeeded = <<2, 1>> /\ saved = <<2, 1>>

\* C6: get_all_reviews lets a submission error reach its caller only when all
\* 3 attempts for the target id have raised.
C6_RaisesOnlyAfterThreeAttempts ==
    (call = "get_all_reviews" /\ outcome = "raised" /\ ~polled) =>
        throws = SubmitAttempts

\* C7: get_all_reviews_last_24 makes at most 3 submissions and stops at the
\* first that returns, so at most one job is pending or collected; a
\* submission that raises on attempt 1 or 2 is followed by another attempt,
\* and a submission error reaches the caller only from the 3rd attempt.
C7_OnlyLastAttemptRaises ==
    call = "get_all_reviews_last_24" =>
        /\ submissions <= SubmitAttempts
        /\ Cardinality(running_request_ids \cup Range(results)) <= 1
        /\ pc = "submit" =>
              /\ throws = submissions /\ attempt = throws
              /\ throws < SubmitAttempts
              /\ running_request_ids = {} /\ outcome = None
        /\ pc \in {"poll", "check", "persist"} \/ polled =>
              submissions = throws + 1 /\ throws < SubmitAttempts
        /\ (outcome = "raised" /\ ~polled) =>
              throws = SubmitAttempts /\ submissions = SubmitAttempts

\* C7 witness: two submissions raised, the third returned a job id, and the
\* call is polling that one job.
C7_Witness ==
    /\ call = "get_all_reviews_last_24" /\ pc = "poll"
    /\ throws = 2 /\ submissions = 3
    /\ running_request_ids = {1} /\ outcome = None

\* C8, as claimed: when all 3 submission attempts of get_all_reviews_last_24
\* have raised, the call goes on to its polling phase and does not end with
\* an exception.
C8_ContinuesAfterExhaustion ==
    (call = "get_all_reviews_last_24" /\ throws = SubmitAttempts) =>
        outcome # "raised"

\* C8, amended: when all 3 submission attempts of get_all_reviews_last_24
\* have raised, the third exception reaches the caller: the call ends with
\* it, no status check is made and no payload is handed to save_data.
C8_ExhaustionRaises ==
    (call = "get_all_reviews_last_24" /\ throws = SubmitAttempts) =>
        /\ pc = "done" /\ outcome = "raised"
        /\ ~polled /\ rounds = 0
        /\ running_request_ids = {} /\ results = <<>> /\ saved = <<>>
        /\ sd_pc = "idle" /\ sd_ret = <<>>

\* C8 witness: all 3 submission attempts of get_all_reviews_last_24 raised.
C8_Witness ==
    /\ call = "get_all_reviews_last_24"
    /\ throws = SubmitAttempts /\ submissions = SubmitAttempts

\* C9: in get_all_reviews a submission that raises ends the call with the
\* exception, with no status check made and no payload handed to save_data,
\* whatever jobs were submitted for earlier target ids.
C9_SubmissionFailureSkipsPolling ==
    (call = "get_all_reviews" /\ throws > 0) =>
        /\ pc = "done" /\ outcome = "raised"
        /\ ~polled /\ rounds = 0
        /\ results = <<>> /\ saved = <<>>
        /\ sd_pc = "idle" /\ sd_ret = <<>> /\ db = EmptyStore

\* C9 witness: the submission for the second target id raised while the job
\* of the first one was pending.
C9_Witness ==
    /\ call = "get_all_reviews" /\ outcome = "raised"
    /\ target = 2 /\ throws = 1
    /\ running_request_ids = {1}

\* C10: no commit is made while the entries and reviews of a batch are being
\* written; the one commit comes when every entry is done, nothing is written
\* after it, and the call then returns status success with the counters of
\* the batch.
C10_CommitOnceAtEnd ==
    /\ commits <= 1
    /\ InBatch => commits = 0
    /\ sd_pc = "committed" =>
          commits = 1 /\ i = Len(data) /\ j = 0 /\ db = tx
    /\ commits = 1 => sd_pc \in {"committed", "idle"} /\ tx = db
    /\ Returned("success") =>
          commits = 1 /\ sd_ret[2] = self_results /\ conn = "closed"
    /\ Returned("error") => commits = 0

\* C10 witness: a batch of one new business and two reviews, one new and one
\* repeating its review_id, was committed.
C10_Witness ==
    /\ sd_pc = "committed" /\ data = <<2>>
    /\ commits = 1
    /\ self_results.businesses_inserted = 1
    /\ self_results.reviews_inserted = 1
    /\ self_results.businesses_errors = <<>>
    /\ self_results.reviews_errors = <<>>

\* C11: while a batch is written nothing of it is in the committed store, and
\* when save_data returns status error (the connection failed, or an
\* exception left the write loop or the commit and the transaction was
\* rolled back) no commit was made and the committed store is the one the
\* call began with: none of the writes of the batch is visible.
C11_RollbackRestoresStore ==
    /\ InBatch => db = db_before
    /\ Returned("error") =>
          commits = 0 /\ db = db_before /\ tx = db /\ conn # "open"

\* C11 witness: the commit of a batch raised after a business had been
\* inserted; save_data returned status error and the table is empty.
C11_Witness ==
    /\ Returned("error") /\ sd_ret[2] = "commit failed"
    /\ self_results.businesses_inserted = 1
    /\ StoredKeys(db.businesses) = {}

\* C12: when no save_data call is under way neither the connection nor the
\* cursor is open, and a call that had opened them (it returned success, or
\* an error after the connection was made) has closed both; they are open
\* only inside a call.
C12_ConnectionClosedOnExit ==
    /\ sd_pc = "idle" => conn # "open" /\ cursor # "open"
    /\ sd_pc # "idle" => conn = "open" /\ cursor = "open"
    /\ Returned("success") => conn = "closed" /\ cursor = "closed"
    /\ (Returned("error") /\ sd_ret[2] \notin
            {"connect failed", "Missing database configuration"}) =>
          conn = "closed" /\ cursor = "closed"

\* C12 witness: a second call returned by the rollback path and left the
\* connection and the cursor closed.
C12_Witness ==
    /\ batches = 2 /\ Returned("error")
    /\ sd_ret[2] = "'str' object has no attribute 'get'"
    /\ conn = "closed" /\ cursor = "closed"

StructuralError ==
    [place_id |-> "unknown", error |-> "No place_id provided for business"]

\* C13: a pass of the entry loop over an entry whose place_id is missing,
\* null or empty appends the one structural error to businesses_errors,
\* changes nothing else in self.results, leaves the tables as they are and
\* goes straight to the next entry: the review loop is never entered without
\* a place_id.
C13_MissingPlaceIdStep ==
    (sd_pc = "loop" /\ i < Len(data) /\ sd_pc' # "idle" /\ ~Truthy(place_id')) =>
        /\ self_results' =
              [self_results EXCEPT !.businesses_errors =
                  Append(@, StructuralError)]
        /\ tx' = tx /\ db' = db
        /\ sd_pc' = "loop" /\ i' = i + 1 /\ j' = 0

C13_MissingPlaceIdSkipped ==
    [][C13_MissingPlaceIdStep]_vars /\ [](sd_pc = "reviews" => Truthy(place_id))

\* C13 witness: a batch whose first entry had a review and no place_id and
\* whose second entry was inserted was committed: one structural error, no
\* review written or refused.
C13_Witness ==
    /\ sd_pc = "committed" /\ data = <<1, 0>>
    /\ self_results.businesses_errors = <<StructuralError>>
    /\ self_results.businesses_inserted = 1
    /\ self_results.reviews_inserted = 0
    /\ self_results.reviews_errors = <<>>
    /\ StoredKeys(db.reviews) = {}

\* The direct writer call that was made last, and what it was given.
LastIsBusiness == last.op = "save_business"
LastIsReview == last.op = "save_review"
LastCalled == LastIsBusiness \/ LastIsReview
LastStatementFailed == LastCalled /\ last.exec # "ok" /\ last.stmts # <<>>
LastErrorEntry ==
    IF LastIsBusiness
    THEN [place_id |-> last.input.place_id, error |-> last.ret[2]]
    ELSE [review_id |-> last.input.review_id, error |-> last.ret[2]]

\* C14: a writer call always returns a tuple.  When it returns failure it has
\* appended exactly one entry, the key of the record with the message it
\* returns, to its own error list and left the other list alone; when it
\* returns success it has appended nothing.  When the failure is that of a
\* statement, the message is the one of the database, and the insert
\* counters and the tables are as they were before the call.
C14_WriterFailureRecorded ==
    LastCalled =>
        /\ last.ret[1] \in BOOLEAN
        /\ last.ret[1] = FALSE =>
              IF LastIsBusiness
              THEN /\ self_results.businesses_errors =
                         Append(last.results_before.businesses_errors,
                                LastErrorEntry)
                   /\ self_results.reviews_errors =
                         last.results_before.reviews_errors
              ELSE /\ self_results.reviews_errors =
                         Append(last.results_before.reviews_errors,
                                LastErrorEntry)
                   /\ self_results.businesses_errors =
                         last.results_before.businesses_errors
        /\ last.ret[1] = TRUE =>
              /\ self_results.businesses_errors =
                    last.results_before.businesses_errors
              /\ self_results.reviews_errors = last.results_before.reviews_errors
        /\ LastStatementFailed =>
              /\ last.ret = <<FALSE, DbError>>
              /\ self_results.businesses_inserted =
                    last.results_before.businesses_inserted
              /\ self_results.reviews_inserted =
                    last.results_before.reviews_inserted
              /\ tx = last.before

\* C14 witness: the UPDATE of a review that had been inserted by the call
\* before raised: one entry in reviews_errors, the counter still at one.
C14_Witness ==
    /\ LastIsReview /\ last.exec = "write-raises"
    /\ last.stmts = <<"SELECT", "UPDATE">>
    /\ last.ret = <<FALSE, DbError>>
    /\ self_results.reviews_errors =
          <<[review_id |-> last.input.review_id, error |-> DbError]>>
    /\ self_results.reviews_inserted = 1

HardFailures ==
    {"connect failed", "Missing database configuration", "commit failed",
     "'str' object has no attribute 'get'"}

\* C15: whatever a writer returns, the loops of save_data go on: after the
\* save of a business with a place_id come all its reviews, after a review
\* the next review or the next entry, so the commit is reached with every
\* entry done; errors in the lists never make the return an error status,
\* and a success return carries the lists.
C15_LoopStep ==
    /\ (sd_pc = "loop" /\ i < Len(data) /\ sd_pc' # "idle"
           /\ Truthy(place_id')) =>
          IF data[i + 1] > 0
          THEN sd_pc' = "reviews" /\ i' = i /\ j' = 0
          ELSE sd_pc' = "loop" /\ i' = i + 1
    /\ sd_pc = "reviews" =>
          IF j + 1 = data[i + 1]
          THEN sd_pc' = "loop" /\ i' = i + 1
          ELSE sd_pc' = "reviews" /\ i' = i /\ j' = j + 1

C15_LoopState ==
    /\ sd_pc = "reviews" => i < Len(data) /\ j < data[i + 1]
    /\ sd_pc = "committed" => i = Len(data) /\ sd_ret = <<>>
    /\ Returned("error") => sd_ret[2] \in HardFailures
    /\ Returned("success") => sd_ret[2] = self_results

C15_FailuresDoNotStopBatch == [][C15_LoopStep]_vars /\ []C15_LoopState

\* C15 witness: the write of a business failed, its review was inserted all
\* the same and committed, and save_data returned success with the failure in
\* businesses_errors.
C15_Witness ==
    /\ Returned("success")
    /\ sd_ret[2].businesses_errors = <<[place_id |-> "p1", error |-> DbError]>>
    /\ sd_ret[2].reviews_inserted = 1
    /\ StoredKeys(db.businesses) = {}
    /\ \E key \in ReviewIds :
          /\ Len(db.reviews[key]) = 1
          /\ db.reviews[key][1].business_place_id = "p1"

\* C16: with a database setting missing, a polling call makes no provider
\* call (no submission, no poll round, no status check) and does not return
\* normally: the configuration error reaches the caller first.
C16_ConfigErrorBeforeIO ==
    ~db_config_ok =>
        /\ submissions = 0 /\ running_request_ids = {}
        /\ rounds = 0 /\ ~polled
        /\ outcome # "returned"

ConnectFailures == {"connect failed", "Missing database configuration"}
NewKeys(table_now, table_before) ==
    Cardinality(StoredKeys(table_now) \ StoredKeys(table_before))

\* C17, as claimed: after every save_data call self.results holds only what
\* that call inserted and recorded; a call whose connection failed inserted
\* and recorded nothing, so it holds zero counters and empty lists.
C17_FreshAfterEveryCall ==
    (Returned("error") /\ sd_ret[2] \in ConnectFailures) =>
        self_results = ZeroResults

\* C17, amended: a save_data call that gets its connection enters its entry
\* loop with zero counters and empty lists; from then on the lists are no
\* longer than the records gone through, the counters are the keys the call
\* has added, and a success return carries exactly those.  A call whose
\* connection fails leaves self.results as the call before left it.
C17_BatchState ==
    /\ (sd_pc = "loop" /\ i = 0) => self_results = ZeroResults
    /\ sd_pc \in {"loop", "reviews", "committed"} =>
          /\ Len(self_results.businesses_errors) <=
                i + (IF sd_pc = "reviews" THEN 1 ELSE 0)
          /\ Len(self_results.reviews_errors) <= SumSeq(SubSeq(data, 1, i)) + j
          /\ self_results.businesses_inserted =
                NewKeys(tx.businesses, db_before.businesses)
          /\ self_results.reviews_inserted = NewKeys(tx.reviews, db_before.reviews)
    /\ Returned("success") =>
          /\ sd_ret[2] = self_results
          /\ self_results.businesses_inserted =
                NewKeys(db.businesses, db_before.businesses)
          /\ self_results.reviews_inserted = NewKeys(db.reviews, db_before.reviews)

C17_ConnectFailureStep ==
    (sd_pc = "idle" /\ sd_pc' = "idle" /\ sd_ret' # sd_ret) =>
        /\ sd_ret'[1] = "error" /\ sd_ret'[2] \in ConnectFailures
        /\ self_results' = self_results

C17_ResetAfterConnect == []C17_BatchState /\ [][C17_ConnectFailureStep]_vars

\* C17 witness: a second call returned success with a count of one business
\* while the table holds two, one of them from the first call.
C17_Witness ==
    /\ batches = 2 /\ Returned("success")
    /\ sd_ret[2].businesses_inserted = 1
    /\ Cardinality(StoredKeys(db_before.businesses)) = 1
    /\ Cardinality(StoredKeys(db.businesses)) = 2

\* The record the last writer call built, the table it wrote to and the key
\* of the row.
LastRecord ==
    IF LastIsBusiness THEN business(last.input)
    ELSE review_record(last.input, last.business_place_id)
LastTable(store) == IF LastIsBusiness THEN store.businesses ELSE store.reviews
LastKey == IF LastIsBusiness THEN last.input.place_id ELSE last.input.review_id
LastSource(c) ==
    IF c = "business_place_id" THEN last.business_place_id ELSE last.input[c]
LastUpdated ==
    LastCalled /\ last.exec = "ok" /\ last.stmts = <<"SELECT", "UPDATE">>
LastInserted ==
    LastCalled /\ last.exec = "ok" /\ last.stmts = <<"SELECT", "INSERT">>

\* C18: after a writer call that took the update branch, the row of the key
\* has, in every column, the value of the normalized record when the record
\* has the field and the value it had before the call when it has not, which
\* is the case of every field whose source value is null or missing; the
\* other rows and the other table are as they were.
C18_UpdateKeepsOmittedColumns ==
    LastUpdated =>
        /\ Len(LastTable(tx)[LastKey]) = Len(LastTable(last.before)[LastKey])
        /\ \A n \in 1..Len(LastTable(tx)[LastKey]) :
              \A c \in DOMAIN LastTable(tx)[LastKey][n] :
                 /\ LastTable(tx)[LastKey][n][c] =
                       IF c \in DOMAIN LastRecord THEN LastRecord[c]
                       ELSE LastTable(last.before)[LastKey][n][c]
                 /\ LastSource(c) = None =>
                       LastTable(tx)[LastKey][n][c] =
                          LastTable(last.before)[LastKey][n][c]
        /\ \A key \in DOMAIN LastTable(tx) \ {LastKey} :
              LastTable(tx)[key] = LastTable(last.before)[key]
        /\ LastIsBusiness => tx.reviews = last.before.reviews
        /\ LastIsReview => tx.businesses = last.before.businesses

\* C18 witness: a business stored with popular_times was saved again without
\* it: the call updated the row and the column kept its value.
C18_Witness ==
    /\ LastIsBusiness /\ LastUpdated /\ last.ret[1] = TRUE
    /\ last.input.popular_times = None
    /\ last.before.businesses[LastKey][1].popular_times = json_dumps("[1]")
    /\ tx.businesses[LastKey][1].popular_times = json_dumps("[1]")

LastColumns == IF LastIsBusiness THEN BusinessColumns ELSE ReviewColumns
Placeholders == {None, "", json_dumps(None), json_dumps(""), json_dumps("[]")}

\* C19: the record a writer call builds has only allow-listed fields, each
\* with a value that is not null and whose source value is not null or
\* missing; a row it inserted or updated has the value of the record in the
\* columns of the record, in no column a written null or an empty
\* placeholder, and after an insert the column default in every other column.
C19_NullFieldsOmitted ==
    LastCalled =>
        /\ DOMAIN LastRecord \subseteq LastColumns
        /\ \A c \in DOMAIN LastRecord :
              LastRecord[c] \notin Placeholders /\ LastSource(c) # None
        /\ \A c \in LastColumns :
              LastSource(c) = None => c \notin DOMAIN LastRecord
        /\ (LastInserted \/ LastUpdated) =>
              \A n \in 1..Len(LastTable(tx)[LastKey]) :
                 \A c \in LastColumns :
                    /\ LastTable(tx)[LastKey][n][c] \notin Placeholders
                    /\ c \in DOMAIN LastRecord =>
                          LastTable(tx)[LastKey][n][c] = LastRecord[c]
                    /\ (LastInserted /\ c \notin DOMAIN LastRecord) =>
                          LastTable(tx)[LastKey][n][c] = NULL

\* C19 witness: a review without review_datetime_utc was inserted: the record
\* has the two other fields and the column of the new row is at its default.
C19_Witness ==
    /\ LastIsReview /\ LastInserted /\ last.ret[1] = TRUE
    /\ last.input.review_datetime_utc = None
    /\ DOMAIN LastRecord = {"business_place_id", "review_id"}
    /\ tx.reviews[LastKey][1].review_datetime_utc = NULL

\* C20: a save_review call for a review with a review_id whose
\* review_datetime_utc is not in the format %m/%d/%Y %H:%M:%S, with statements
\* that succeed, builds a record without review_datetime_utc, appends no
\* error, returns (True, review_id) and leaves the column of the row at its
\* default after an insert and at its earlier value after an update.
C20_UnparsedTimestampOmitted ==
    (LastIsReview /\ last.input.review_datetime_utc = DtBad
        /\ last.input.review_id # None /\ last.exec = "ok") =>
        /\ "review_datetime_utc" \notin DOMAIN LastRecord
        /\ last.ret = <<TRUE, last.input.review_id>>
        /\ self_results.reviews_errors = last.results_before.reviews_errors
        /\ self_results.businesses_errors = last.results_before.businesses_errors
        /\ LastInserted \/ LastUpdated
        /\ Len(tx.reviews[LastKey]) = 1
        /\ tx.reviews[LastKey][1].review_datetime_utc =
              IF LastInserted THEN NULL
              ELSE last.before.reviews[LastKey][1].review_datetime_utc

\* C20 witness: a review with a timestamp in another format was inserted: the
\* call returned success, no error was recorded and the row has no timestamp.
C20_Witness ==
    /\ LastIsReview /\ LastInserted
    /\ last.input.review_datetime_utc = DtBad
    /\ last.ret[1] = TRUE
    /\ self_results.reviews_errors = <<>>
    /\ self_results.reviews_inserted = 1
    /\ tx.reviews[LastKey][1].review_datetime_utc = NULL

\* C21: when a direct call of save_business or save_review on a connection
\* opened by connect_to_db has returned success, commit has been called
\* exactly once on the connection.
C21_WriterCommitsOnce ==
    (LastCalled /\ used = 1 /\ last.ret[1] = TRUE) => commits = 1

\* The jobs of the polling call: pending, and resolved.
Pending == running_request_ids
Resolved == Range(results)

\* C22: a job is never pending and resolved at once and resolves at most
\* once; it becomes pending only in a submission step that did not raise, it
\* stops being pending only in a status check that said Success, which is
\* the step that collects its payload; only pending jobs are status-checked;
\* a resolved job stays resolved; and when the call returns every target id
\* has a job that is either resolved or, with the budget used up, still
\* pending.
C22_JobState ==
    /\ Pending \cap Resolved = {}
    /\ Cardinality(Resolved) = Len(results)
    /\ to_check \subseteq Pending
    /\ Pending \cup Resolved \subseteq 1..place_ids
    /\ outcome = "returned" =>
          /\ Pending \cup Resolved = 1..place_ids
          /\ Pending # {} => attempts = 0

C22_JobStep ==
    /\ running_request_ids' # running_request_ids =>
          \/ /\ pc = "submit" /\ throws' = throws
             /\ running_request_ids' = running_request_ids \cup {target}
             /\ target \notin running_request_ids
          \/ /\ pc = "check"
             /\ \E request_id \in to_check :
                   /\ running_request_ids' = running_request_ids \ {request_id}
                   /\ results' = Append(results, request_id)
                   /\ succeeded' = Append(succeeded, request_id)
          \/ pc = "start" /\ running_request_ids' = {}
    /\ results' # results =>
          \/ /\ Len(results') = Len(results) + 1
             /\ SubSeq(results', 1, Len(results)) = results
             /\ results'[Len(results')] \in running_request_ids \ running_request_ids'
          \/ pc = "start" /\ results' = <<>>

C22_JobLifecycle == []C22_JobState /\ [][C22_JobStep]_vars

\* C22 witness: a call for two target ids returned after its last round with
\* the first job resolved and the second abandoned.
C22_Witness ==
    /\ outcome = "returned" /\ rounds = PollRoundsAll
    /\ Resolved = {1} /\ Pending = {2}

\* C23: in main of fetch_new_reviews the calls of get_all_reviews_last_24
\* are made for the ids of the list in list order, one call for each id so
\* far, whether the earlier calls returned or raised; once the loop was
\* entered main ends only when every id of the list has had its call, and it
\* ends by returning: no exception leaves main.
C23_MainLoopNeverStops ==
    /\ main_pc \in {"start", "loop", "call", "returned"}
    /\ idx <= total
    /\ invoked = [n \in 1..idx |-> n]
    /\ Len(ended) = IF main_pc = "call" THEN idx - 1 ELSE idx
    /\ \A n \in 1..Len(ended) : ended[n] \in {"returned", "raised"}
    /\ main_pc = "call" <=> pc # "start"
    /\ main_pc = "returned" => idx = total

\* C23 witness: main returned after the call for the first of two ids had
\* raised and the call for the second had returned.
C23_Witness ==
    /\ main_pc = "returned" /\ total = 2
    /\ invoked = <<1, 2>>
    /\ ended = <<"raised", "returned">>

MissingReviewId == [review_id |-> None, error |-> "'review_id'"]

\* C24, as claimed: save_data calls save_review only for a review that has a
\* review_id, so reviews_errors never gets the entry that save_review
\* records for a review without one.
C24_NoWriterCallWithoutKey ==
    \A n \in 1..Len(self_results.reviews_errors) :
        self_results.reviews_errors[n].review_id # None

\* C24, amended: save_data calls save_business, and goes through the reviews,
\* only for an entry with a place_id; it calls save_review for every review
\* of such an entry, also for one without review_id.  That call hands no
\* statement to the database: it records the one entry {review_id: None,
\* error: 'review_id'}, returns failure and leaves tables and counters
\* alone.
C24_KeyState ==
    /\ sd_pc = "reviews" => Truthy(place_id)
    /\ \A n \in 1..Len(self_results.businesses_errors) :
          /\ self_results.businesses_errors[n].error # "'place_id'"
          /\ self_results.businesses_errors[n].place_id \in PlaceIds \cup {"unknown"}
    /\ \A n \in 1..Len(self_results.reviews_errors) :
          self_results.reviews_errors[n].review_id = None <=>
             self_results.reviews_errors[n].error = "'review_id'"
    /\ \A review \in RawReview, exec \in ExecOutcomes :
          review.review_id = None =>
             LET out == save_review(tx, self_results, review, "p1", exec)
             IN  /\ out.stmts = <<>> /\ out.tx = tx
                 /\ out.ret = <<FALSE, "'review_id'">>
                 /\ out.results =
                       [self_results EXCEPT !.reviews_errors =
                           Append(@, MissingReviewId)]

C24_KeyStep ==
    (sd_pc = "reviews" /\ sd_pc' # "idle"
        /\ self_results'.reviews_errors =
              Append(self_results.reviews_errors, MissingReviewId)) =>
        /\ tx' = tx /\ db' = db
        /\ self_results'.reviews_inserted = self_results.reviews_inserted
        /\ self_results'.businesses_inserted = self_results.businesses_inserted
        /\ self_results'.businesses_errors = self_results.businesses_errors

C24_MissingReviewIdRecorded == []C24_KeyState /\ [][C24_KeyStep]_vars

\* C24 witness: the one review of an inserted business had no review_id: it
\* was handed to save_review, which recorded the error and wrote no row.
C24_Witness ==
    /\ sd_pc = "loop" /\ data = <<1>> /\ i = 1
    /\ self_results.businesses_inserted = 1
    /\ self_results.businesses_errors = <<>>
    /\ self_results.reviews_errors = <<MissingReviewId>>
    /\ StoredKeys(tx.reviews) = {}

\* C25: a writer call that returns success has handed exactly two statements
\* to the database, first the lookup by the key and then one write, an
\* UPDATE when the lookup found a row of the key and an INSERT when it found
\* none; it returns (True, key); after the INSERT the key has one row more
\* and the counter of the table one more, after the UPDATE both are as
\* before.  A call hands over at most these two statements in any case.
C25_LookupThenOneWrite ==
    LastCalled =>
        /\ Len(last.stmts) <= 2
        /\ last.stmts # <<>> => last.stmts[1] = "SELECT"
        /\ last.ret[1] = TRUE =>
              /\ Len(last.stmts) = 2
              /\ last.stmts[2] =
                    IF fetchone(LastTable(last.before), LastKey)
                    THEN "UPDATE" ELSE "INSERT"
              /\ last.ret[2] = LastKey /\ LastKey = LastRecord[
                    IF LastIsBusiness THEN "place_id" ELSE "review_id"]
              /\ Len(LastTable(tx)[LastKey]) =
                    Len(LastTable(last.before)[LastKey]) +
                       (IF last.stmts[2] = "INSERT" THEN 1 ELSE 0)
              /\ self_results.businesses_inserted =
                    last.results_before.businesses_inserted +
                       (IF LastIsBusiness /\ last.stmts[2] = "INSERT"
                        THEN 1 ELSE 0)
              /\ self_results.reviews_inserted =
                    last.results_before.reviews_inserted +
                       (IF LastIsReview /\ last.stmts[2] = "INSERT"
                        THEN 1 ELSE 0)

\* C25 witness: a save_review call found the row an earlier call had
\* inserted, updated it and returned (True, review_id).
C25_Witness ==
    /\ LastIsReview /\ last.stmts = <<"SELECT", "UPDATE">>
    /\ last.ret = <<TRUE, last.input.review_id>>
    /\ Len(last.before.reviews[LastKey]) = 1
    /\ Len(tx.reviews[LastKey]) = 1
    /\ self_results.reviews_inserted = 1

\* The place of the loops of save_data in the payload, counted in records:
\* the entries done with their reviews, and for the entry at hand its
\* business and the reviews done.
Slot ==
    i + SumSeq(SubSeq(data, 1, i)) + (IF sd_pc = "reviews" THEN 1 + j ELSE 0)

\* C26: within a batch the writes are attempted in input order.  The payload
\* is not reordered; a step at an entry is the write of its business, made
\* before any of its reviews (the review loop is entered at the first
\* review, with no review written by that step); a step in the review loop
\* writes the review at hand and goes to the one after it, and to the next
\* entry only after the last; the place in the payload only moves forward,
\* so no review of a later entry is written before a review of an earlier
\* one.
C26_OrderStep ==
    (InBatch /\ InBatch') =>
        /\ data' = data
        /\ Slot' > Slot
        /\ i' \in {i, i + 1}
        /\ sd_pc = "loop" =>
              /\ tx'.reviews = tx.reviews
              /\ self_results'.reviews_inserted = self_results.reviews_inserted
              /\ self_results'.reviews_errors = self_results.reviews_errors
              /\ IF sd_pc' = "reviews"
                 THEN i' = i /\ j' = 0 /\ Truthy(place_id')
                 ELSE i' = i + 1
        /\ sd_pc = "reviews" =>
              /\ tx'.businesses = tx.businesses
              /\ self_results'.businesses_inserted =
                    self_results.businesses_inserted
              /\ self_results'.businesses_errors =
                    self_results.businesses_errors
              /\ place_id' = place_id
              /\ IF sd_pc' = "reviews"
                 THEN i' = i /\ j' = j + 1
                 ELSE i' = i + 1 /\ j + 1 = data[i + 1]

C26_OrderState ==
    /\ InBatch => i <= Len(data) /\ Slot <= Len(data) + SumSeq(data)
    /\ sd_pc = "reviews" => Truthy(place_id)
    /\ InBatch =>
          self_results.reviews_inserted + Len(self_results.reviews_errors)
             <= Slot - (IF sd_pc = "reviews" THEN i + 1 ELSE i)

C27_FailureStep ==
    (batches' # batches /\ sd_pc' = "idle") =>
        /\ sd_ret' = <<"error", IF db_config_ok THEN "connect failed"
                                ELSE "Missing database configuration">>
        /\ db' = db /\ tx' = db
        /\ self_results' = self_results
        /\ commits' = 0 /\ rollbacks' = 0
        /\ conn' # "open" /\ cursor' # "open"

C27_FailureState ==
    /\ ~db_config_ok => sd_pc = "idle" /\ db = EmptyStore
    /\ (Returned("error") /\ sd_ret[2] \in ConnectFailures) =>
          /\ commits = 0 /\ rollbacks = 0
          /\ db = db_before /\ tx = db
    /\ (Returned("error") /\ sd_ret[2] \notin ConnectFailures) =>
          /\ commits = 0 /\ rollbacks = 1
          /\ db = db_before /\ tx = db

C27_ConnectFailureTouchesNothing ==
    [][C27_FailureStep]_vars /\ []C27_FailureState

\* C27 witness: after a call that committed rows, a second call failed to
\* connect: it returned the error with no rollback, and the rows are there.
C27_Witness ==
    /\ batches = 2 /\ Returned("error") /\ sd_ret[2] = "connect failed"
    /\ conn = "closed" /\ rollbacks = 0 /\ commits = 0
    /\ db # EmptyStore /\ db = db_before
    /\ self_results.businesses_inserted > 0

\* No save_data call has been made: nothing handed over, no connection ever
\* opened, no return value, an empty store.
NothingPersisted ==
    /\ saved = <<>> /\ k = 0
    /\ sd_pc = "idle" /\ sd_ret = <<>> /\ conn = None
    /\ db = EmptyStore /\ tx = EmptyStore

\* C28: persistence starts only after the whole polling phase has ended.
\* While jobs are submitted and polled no save_data call is made; the loop
\* over the payloads is entered only from the end of the polling loop (no
\* job of a round left to check, and the budget used up or no job pending);
\* a polling call that raised, by a submission or by a status check, has
\* made no save_data call at all, whatever had resolved before.
C28_PersistAfterPolling ==
    /\ pc \in {"start", "submit", "poll", "check"} => NothingPersisted
    /\ outcome = "raised" => pc = "done" /\ NothingPersisted
    /\ pc = "persist" =>
          /\ to_check = {}
          /\ attempts = 0 \/ running_request_ids = {}
    /\ saved # <<>> => pc \in {"persist", "done"} /\ outcome # "raised"

\* C28 witness: of two jobs one resolved in the first round and the status
\* check of the other raised in a later round; the call raised with the
\* payload of the first collected and nothing saved.
C28_Witness ==
    /\ call = "get_all_reviews" /\ outcome = "raised" /\ polled
    /\ rounds >= 2 /\ Len(results) = 1 /\ running_request_ids # {}
    /\ saved = <<>> /\ db = EmptyStore /\ sd_ret = <<>>

\* C29: each resolved payload is persisted in a save_data call of its own,
\* independently of the others.  A save_data call is begun only when the one
\* before has returned, for the next payload of results, and its transaction
\* starts from the committed store; the committed store changes only by the
\* one commit of a call and never loses a key, so an error return or a
\* rollback of a later call undoes nothing of an earlier one; a return of
\* save_data, whatever its status, leaves the loop over the payloads where
\* it is and sets no outcome of the polling call, which goes through all the
\* payloads and returns.
C29_PayloadStep ==
    /\ saved' # saved =>
          /\ sd_pc = "idle" /\ pc = "persist" /\ k < Len(results)
          /\ saved' = Append(saved, results[k + 1]) /\ k' = k + 1
          /\ tx' = db /\ db' = db /\ commits' = 0 /\ rollbacks' = 0
    /\ db' # db =>
          /\ sd_pc = "loop" /\ sd_pc' = "committed"
          /\ db' = tx /\ commits' = 1 /\ rollbacks' = 0
          /\ StoredKeys(db.businesses) \subseteq StoredKeys(db'.businesses)
          /\ StoredKeys(db.reviews) \subseteq StoredKeys(db'.reviews)
    /\ (sd_pc # "idle" /\ sd_pc' = "idle") =>
          /\ db' = db /\ tx' = db
          /\ pc' = pc /\ outcome' = outcome
          /\ k' = k /\ results' = results /\ saved' = saved
          /\ sd_ret'[1] = "error" => commits' = 0 /\ rollbacks' = 1

C29_PayloadState ==
    /\ commits <= 1 /\ rollbacks <= 1 /\ commits + rollbacks <= 1
    /\ pc = "persist" =>
          /\ Len(saved) = k /\ k <= Len(results)
          /\ \A n \in 1..Len(saved) : n <= Len(results) /\ saved[n] = results[n]
    /\ outcome = "returned" =>
          /\ pc = "done" /\ sd_pc = "idle"
          /\ saved = results
    /\ sd_pc # "idle" => pc = "persist" /\ outcome = None

C29_PayloadsIndependent == [][C29_PayloadStep]_vars /\ []C29_PayloadState

\* C29 witness: the polling call returned after two payloads; the save_data
\* call of the first committed a business, that of the second was rolled
\* back and returned an error, and the business of the first is in the store.
C29_Witness ==
    /\ outcome = "returned" /\ Len(saved) = 2 /\ saved = results
    /\ Returned("error") /\ sd_ret[2] \notin ConnectFailures
    /\ rollbacks = 1 /\ commits = 0
    /\ StoredKeys(db.businesses) # {} /\ db = db_before

====
